---- MODULE Spec2Model ----
(***************************************************************************)
(* Aho-Corasick automaton of src/ahocora.py (class AC): the trie built by  *)
(* add, the breadth-first construction of build (failure links, merged     *)
(* outputs, optional deterministic closure) and the generator returned by  *)
(* search.                                                                 *)
(*                                                                         *)
(* An automaton object is a record of the attributes of AC:                *)
(*   G      transitions, a dict keyed by <<state, symbol>>                 *)
(*   O      outputs, a dict state -> set of words                          *)
(*   F      failure, a dict state -> state                                 *)
(*   W      alphabet (self._W), a dict state -> set of symbols             *)
(*   built, deter   the flags self._built and self._deter                  *)
(*   next   the next value of the counter count(1) behind G's defaults     *)
(*   isNone the attributes currently bound to None (the dict field then    *)
(*          holds the empty function, which is never read)                 *)
(*   iter   the order in which a for loop visits each output set O[s]      *)
(* Words and texts are sequences of symbols; a match is <<word, index>>.   *)
(***************************************************************************)
EXTENDS Integers, Sequences, FiniteSets, TLC

VARIABLES
    ac,     \* ac[o]: the automaton object o
    call,   \* the build call in progress (its locals), if any
    gen,    \* gen[g]: the generator object returned by a call of search
    ret,    \* what the most recent call did: returned or raised
    hist    \* history: the words each object accepted, the object as build found it
            \* and as build left it, the failure table at the end of build's loop

vars == <<ac, call, gen, ret, hist>>

----------------------------------------------------------------------------
(* Bounds of the model *)

\* the largest number of non-root states an automaton may hold
MaxStates == 2
\* the largest number of symbols the searches may consume
MaxText == 3
\* the largest number of non-root states in the runs of insertion and build alone
MaxTrie == 4
\* the largest number of symbols of a word passed to add
MaxWord == 3

\* the symbols of patterns and texts
Sym == {"a", "b"}
\* the arguments of add: every word of at most MaxWord symbols, the empty one included
Words == UNION {[1..n -> Sym] : n \in 0..MaxWord}
\* generator identities
GenIds == {1, 2}

----------------------------------------------------------------------------
(* Dictionaries *)

\* k in d
Has(d, k) == k \in DOMAIN d
\* d.get(k, default)
Get(d, k, default) == IF k \in DOMAIN d THEN d[k] ELSE default
\* d[k] = v
Put(d, k, v) == [x \in DOMAIN d \cup {k} |-> IF x = k THEN v ELSE d[x]]
\* d[k] on a defaultdict(set): the key is created, with an empty set, when missing
Touch(d, k) == IF k \in DOMAIN d THEN d ELSE Put(d, k, {})

\* the orders in which a for loop may visit the elements of a set
Perms(S) ==
    {p \in [1..Cardinality(S) -> S] : \A i, j \in 1..Cardinality(S) : i # j => p[i] # p[j]}

----------------------------------------------------------------------------
(* AC.__init__ *)

New ==
    [G |-> <<>>, O |-> <<>>, F |-> <<>>, W |-> <<>>,
     built |-> FALSE, deter |-> FALSE, isNone |-> {"_deter"},
     next |-> 1, iter |-> <<>>]

----------------------------------------------------------------------------
(* AC.add *)

\* the loop of add following the transitions without recording the symbol
addSymbol_noAlphabet(T, c) ==
    LET A == T.A
        key == <<T.state, c>>
    IN  IF Has(A.G, key)
        THEN [A |-> A, state |-> A.G[key]]
        ELSE [A |-> [A EXCEPT !.G = Put(A.G, key, A.next), !.next = A.next + 1],
              state |-> A.next]

\* One pass of the loop `for c in word`: record c in the alphabet of state, then
\* follow G[state, c], which allocates the next identifier when the key is missing.
addSymbol(T, c) ==
    LET A == T.A
        key == <<T.state, c>>
        W1 == Put(A.W, T.state, Get(A.W, T.state, {}) \cup {c})
    IN  IF Has(A.G, key)
        THEN [A |-> [A EXCEPT !.W = W1], state |-> A.G[key]]
        ELSE [A |-> [A EXCEPT !.W = W1, !.G = Put(A.G, key, A.next), !.next = A.next + 1],
              state |-> A.next]

RECURSIVE addLoop(_, _, _)
addLoop(T, word, i) ==
    IF i > Len(word) THEN T ELSE addLoop(addSymbol(T, word[i]), word, i + 1)

\* self.O[state].add(word)
addOutput(A, state, word) ==
    [A EXCEPT !.O = Put(A.O, state, Get(A.O, state, {}) \cup {word})]

\* add without its first assert: words are accepted after build
add_afterBuild(A, word) ==
    LET T == addLoop([A |-> A, state |-> 0], word, 1)
    IN  IF T.state = 0
        THEN [A |-> T.A, raised |-> "unable to add empty words"]
        ELSE [A |-> addOutput(T.A, T.state, word), raised |-> "no"]

\* add without its second assert: the empty word becomes an output of state 0
add_emptyWord(A, word) ==
    IF A.built
    THEN [A |-> A, raised |-> "adding new words after building is not allowed"]
    ELSE LET T == addLoop([A |-> A, state |-> 0], word, 1)
         IN  [A |-> addOutput(T.A, T.state, word), raised |-> "no"]

\* add(word) on object A: the object it leaves and what the call raised ("no": nothing)
add(A, word) ==
    IF A.built
    THEN [A |-> A, raised |-> "adding new words after building is not allowed"]
    ELSE LET T == addLoop([A |-> A, state |-> 0], word, 1)
         IN  IF T.state = 0
             THEN [A |-> T.A, raised |-> "unable to add empty words"]
             ELSE [A |-> addOutput(T.A, T.state, word), raised |-> "no"]

----------------------------------------------------------------------------
(* One thread: a call runs to its return, and a generator to its next yield, before *)
(* another call starts                                                             *)

\* The locals of a build call, and as history of the call the states it has appended
\* to its queue (enq) and those it has popped from it (deq), in order.
NoCall == [active |-> FALSE, o |-> 0, deterministic |-> FALSE, queue |-> <<>>,
           enq |-> <<>>, deq |-> <<>>]
\* A generator object: the automaton it searches, the locals of its frame (state, the
\* symbols taken from the text so far, the matches the inner for loop has still to
\* yield) and, as history, whether the automaton was built when search was called and
\* the matches yielded so far.
NoGen == [status |-> "none", o |-> 0, consumed |-> <<>>, state |-> 0,
          out |-> <<>>, yielded |-> <<>>, early |-> FALSE]

Idle == ~call.active /\ \A g \in GenIds : gen[g].status # "running"

Returned(op, o, raised) == [op |-> op, o |-> o, raised |-> raised]

\* add(word) on object o, the automaton holding at most n states afterwards
AddWithin(o, word, n) ==
    /\ Idle
    /\ LET R == add(ac[o], word)
       IN  /\ R.A.next - 1 <= n
           /\ ac' = [ac EXCEPT ![o] = R.A]
           /\ ret' = Returned("add", o, R.raised)
           /\ hist' = IF R.raised = "no"
                      THEN [hist EXCEPT !.added[o] = @ \cup {word}]
                      ELSE hist
    /\ UNCHANGED <<call, gen>>

Add(o, word) == AddWithin(o, word, MaxStates)

----------------------------------------------------------------------------
(* AC.build *)

\* the first loop of build appending every child of the root twice
RECURSIVE seedLoop_twice(_, _, _)
seedLoop_twice(B, ord, i) ==
    IF i > Len(ord) THEN B
    ELSE LET s == B.A.G[<<0, ord[i]>>]
         IN  seedLoop_twice([A |-> [B.A EXCEPT !.F = Put(@, s, 0)],
                             queue |-> Append(Append(B.queue, s), s)], ord, i + 1)

\* for a in W[0]: s = G[0, a]; queue.append(s); F[s] = 0     (ord: the loop's order)
RECURSIVE seedLoop(_, _, _)
seedLoop(B, ord, i) ==
    IF i > Len(ord) THEN B
    ELSE LET s == B.A.G[<<0, ord[i]>>]
         IN  seedLoop([A |-> [B.A EXCEPT !.F = Put(@, s, 0)],
                       queue |-> Append(B.queue, s)], ord, i + 1)

\* build without its assert
buildAssert_never(A) == "no"

\* assert not self._built, "already built"
buildAssert(A) == IF A.built THEN "already built" ELSE "no"

\* build from its assert to the while loop: the object and the queue
buildStart(A, ord) ==
    seedLoop([A |-> [A EXCEPT !.W = Touch(@, 0)], queue |-> <<>>], ord, 1)

\* while state != 0 and (state, a) not in G: state = F[state]
RECURSIVE findFallback(_, _, _)
findFallback(A, state, a) ==
    IF state # 0 /\ ~Has(A.G, <<state, a>>)
    THEN findFallback(A, A.F[state], a)
    ELSE state

\* build without the union of the outputs along the failure link
mergeOutput_none(O, s, fs) == O

\* the output of the failure state assigned to s instead of united with that of s
mergeOutput_overwrite(O, s, fs) ==
    IF Has(O, fs) THEN Put(O, s, O[fs]) ELSE O

\* the union made the wrong way round and unguarded: O[fs] |= O[s]
mergeOutput_intoTarget(O, s, fs) ==
    Put(O, fs, Get(O, fs, {}) \cup Get(O, s, {}))

\* if fs in O: out = O[s]; out |= O[fs]
mergeOutput(O, s, fs) ==
    IF Has(O, fs) THEN Put(O, s, Get(O, s, {}) \cup O[fs]) ELSE O

\* the walk started at the parent r itself, not at its failure state
buildChild_fromParent(B, r, a) ==
    LET A == B.A
        s == A.G[<<r, a>>]
        state == findFallback(A, r, a)
        fs == Get(A.G, <<state, a>>, 0)
    IN  [A |-> [A EXCEPT !.F = Put(@, s, fs), !.O = mergeOutput(@, s, fs)],
         queue |-> Append(B.queue, s)]

\* the failure state looked up from the root, not from the failure state of the parent
buildChild_fromRoot(B, r, a) ==
    LET A == B.A
        s == A.G[<<r, a>>]
        fs == Get(A.G, <<0, a>>, 0)
    IN  [A |-> [A EXCEPT !.F = Put(@, s, fs), !.O = mergeOutput(@, s, fs)],
         queue |-> Append(B.queue, s)]

\* the body of `for a in W[r]`: enqueue the child, set its failure link, merge its output
buildChild(B, r, a) ==
    LET A == B.A
        s == A.G[<<r, a>>]
        state == findFallback(A, A.F[r], a)
        fs == Get(A.G, <<state, a>>, 0)
    IN  [A |-> [A EXCEPT !.F = Put(@, s, fs), !.O = mergeOutput(@, s, fs)],
         queue |-> Append(B.queue, s)]

RECURSIVE childLoop(_, _, _, _)
childLoop(B, r, ord, i) ==
    IF i > Len(ord) THEN B ELSE childLoop(buildChild(B, r, ord[i]), r, ord, i + 1)

\* the closure without its test `(r, a) not in G`: transitions of r are overwritten
copyTransitions_overwrite(A, r, f) ==
    LET A1 == [A EXCEPT !.W = Touch(@, f)]
    IN  [A1 EXCEPT !.G = [k \in DOMAIN A.G \cup {<<r, a>> : a \in A1.W[f]} |->
                             IF k[1] = r /\ k[2] \in A1.W[f]
                             THEN A.G[<<f, k[2]>>] ELSE A.G[k]]]

\* for a in W[f]: if (r, a) not in G: G[r, a] = G[f, a]
copyTransitions(A, r, f) ==
    LET A1 == [A EXCEPT !.W = Touch(@, f)]
        missing == {a \in A1.W[f] : ~Has(A.G, <<r, a>>)}
    IN  [A1 EXCEPT !.G = [k \in DOMAIN A.G \cup {<<r, a>> : a \in missing} |->
                             IF Has(A.G, k) THEN A.G[k] ELSE A.G[<<f, k[2]>>]]]

\* the closure taking the transitions of the failure state of r only, not of the chain
closeState_noChain(A, r, f) ==
    IF f = 0 THEN A ELSE copyTransitions(A, r, Get(A.F, f, 0))

\* f = r; while f != 0: f = getF(f, 0); <copy the transitions of f>
RECURSIVE closeState(_, _, _)
closeState(A, r, f) ==
    IF f = 0 THEN A
    ELSE LET f1 == Get(A.F, f, 0)
         IN  closeState(copyTransitions(A, r, f1), r, f1)

\* a pass of the loop closing the transitions of r whatever the mode
buildIter_alwaysClose(B, ord, deterministic) ==
    LET r == Head(B.queue)
        B1 == childLoop([A |-> B.A, queue |-> Tail(B.queue)], r, ord, 1)
    IN  [A |-> closeState(B1.A, r, r), queue |-> B1.queue]

\* one pass of `while queue` (ord: the order of `for a in W[r]`)
buildIter(B, ord, deterministic) ==
    LET r == Head(B.queue)
        B1 == childLoop([A |-> B.A, queue |-> Tail(B.queue)], r, ord, 1)
    IN  IF deterministic
        THEN [A |-> closeState(B1.A, r, r), queue |-> B1.queue]
        ELSE B1

\* The iteration order of each output set, fixed by the set's hash table: a search
\* visits O[state] in the same order every time, which order depends on the hashes of
\* the words. A layout gives every set one of its orders, independently of the others.
RECURSIVE layouts(_, _)
layouts(O, D) ==
    IF D = {} THEN {<<>>}
    ELSE LET s == CHOOSE s \in D : TRUE
         IN  {Put(it, s, p) : it \in layouts(O, D \ {s}), p \in Perms(O[s])}
Orders(O) == layouts(O, DOMAIN O)

\* build after the while loop
buildEnd(A, deterministic, it) ==
    [A EXCEPT !.W = <<>>,
              !.F = IF deterministic THEN <<>> ELSE @,
              !.isNone = (@ \cup {"_W"} \cup (IF deterministic THEN {"F"} ELSE {}))
                             \ {"_deter"},
              !.built = TRUE,
              !.deter = deterministic,
              !.iter = it]

\* W[r] as the for loop reads it
alphabet(A, r) == Get(A.W, r, {})

BuildStart(o, deterministic) ==
    /\ Idle
    /\ IF buildAssert(ac[o]) # "no"
       THEN /\ ret' = Returned("build", o, buildAssert(ac[o]))
            /\ UNCHANGED <<ac, call, gen, hist>>
       ELSE \E ord \in Perms(alphabet(ac[o], 0)) :
              LET B == buildStart(ac[o], ord)
              IN  /\ ac' = [ac EXCEPT ![o] = B.A]
                  /\ call' = [active |-> TRUE, o |-> o,
                              deterministic |-> deterministic, queue |-> B.queue,
                              enq |-> B.queue, deq |-> <<>>]
                  /\ hist' = [hist EXCEPT !.trie = Put(@, o, ac[o])]
                  /\ UNCHANGED <<gen, ret>>

BuildLoop ==
    /\ call.active
    /\ call.queue # <<>>
    /\ \E ord \in Perms(alphabet(ac[call.o], Head(call.queue))) :
         LET B == buildIter([A |-> [ac[call.o] EXCEPT !.W = Touch(@, Head(call.queue))],
                             queue |-> call.queue], ord, call.deterministic)
         IN  /\ ac' = [ac EXCEPT ![call.o] = B.A]
             /\ call' = [call EXCEPT !.queue = B.queue,
                                     !.enq = @ \o SubSeq(B.queue, Len(call.queue),
                                                         Len(B.queue)),
                                     !.deq = Append(@, Head(call.queue))]
    /\ UNCHANGED <<gen, ret, hist>>

BuildEnd ==
    /\ call.active
    /\ call.queue = <<>>
    /\ \E it \in Orders(ac[call.o].O) :
         LET A == buildEnd(ac[call.o], call.deterministic, it)
         IN  /\ ac' = [ac EXCEPT ![call.o] = A]
             /\ hist' = [hist EXCEPT !.frozen = Put(@, call.o, A),
                                     !.links = Put(@, call.o, ac[call.o].F)]
    /\ call' = NoCall
    /\ ret' = Returned("build", call.o, "no")
    /\ UNCHANGED gen

----------------------------------------------------------------------------
(* AC.search *)

\* the root test of the fallback loop off by one: `while state > 1 and ...`
RECURSIVE searchFallback_rootOffByOne(_, _, _)
searchFallback_rootOffByOne(A, state, c) ==
    IF state > 1 /\ ~Has(A.G, <<state, c>>)
    THEN searchFallback_rootOffByOne(A, A.F[state], c)
    ELSE state

\* deterministic: state = getG((state, c), 0)
\* otherwise: while state != 0 and (state, c) not in G: state = F[state]; then the same
RECURSIVE searchFallback(_, _, _)
searchFallback(A, state, c) ==
    IF state # 0 /\ ~Has(A.G, <<state, c>>)
    THEN searchFallback(A, A.F[state], c)
    ELSE state

\* `if self._deter`: None is false
isDeter(A) == "_deter" \notin A.isNone /\ A.deter

\* a missing transition leaves the search in the state it is in
transition_stay(A, state, c) ==
    IF isDeter(A)
    THEN Get(A.G, <<state, c>>, state)
    ELSE LET f == searchFallback(A, state, c) IN Get(A.G, <<f, c>>, f)

transition(A, state, c) ==
    IF isDeter(A)
    THEN Get(A.G, <<state, c>>, 0)
    ELSE Get(A.G, <<searchFallback(A, state, c), c>>, 0)

\* the positions counted from 0, as enumerate(text) without its start argument does
outputs_fromZero(A, state, i) ==
    IF Has(A.O, state)
    THEN [k \in 1..Len(A.iter[state]) |->
             <<A.iter[state][k], i - 1 - Len(A.iter[state][k])>>]
    ELSE <<>>

\* if state in O: for w in O[state]: yield w, i - len(w)
\* the matches the loop yields at position i, in the order it yields them
outputs(A, state, i) ==
    IF Has(A.O, state)
    THEN [k \in 1..Len(A.iter[state]) |->
             <<A.iter[state][k], i - Len(A.iter[state][k])>>]
    ELSE <<>>

\* the output lookup as an unguarded O[state] on a dict that still creates its keys
consume_createsKey(A, S, c) ==
    LET state == transition(A, S.state, c)
        i == Len(S.consumed) + 1
        A1 == [A EXCEPT !.O = Touch(@, state),
                        !.iter = IF Has(@, state) THEN @ ELSE Put(@, state, <<>>)]
    IN  [A |-> A1,
         S |-> [S EXCEPT !.consumed = Append(@, c),
                         !.state = state,
                         !.out = outputs(A1, state, i)]]

\* the output set read with O.pop(state): the automaton loses what a search reports
consume_popsOutput(A, S, c) ==
    LET state == transition(A, S.state, c)
        i == Len(S.consumed) + 1
    IN  [A |-> [A EXCEPT !.O = [k \in DOMAIN @ \ {state} |-> @[k]]],
         S |-> [S EXCEPT !.consumed = Append(@, c),
                         !.state = state,
                         !.out = outputs(A, state, i)]]

\* One pass of `for i, c in enumerate(text, 1)` up to its inner for loop: the frame S
\* takes symbol c. The lookups are G.get and a guarded O[state], which create no key,
\* so the object comes back as it was.
consume(A, S, c) ==
    LET state == transition(A, S.state, c)
        i == Len(S.consumed) + 1
    IN  [A |-> A,
         S |-> [S EXCEPT !.consumed = Append(@, c),
                         !.state = state,
                         !.out = outputs(A, state, i)]]

\* the inner for loop left after its first match
yield_firstOnly(S) ==
    [S EXCEPT !.yielded = Append(@, Head(S.out)),
              !.out = <<>>,
              !.status = "suspended"]

\* yield w, i - len(w): the frame is suspended with the match handed to the consumer
yield(S) ==
    [S EXCEPT !.yielded = Append(@, Head(S.out)),
              !.out = Tail(@),
              !.status = "suspended"]

\* search(text) on object o, in state A: search is a generator function, so the call
\* runs none of its body and returns the generator
search(o, A) ==
    [NoGen EXCEPT !.status = "created", !.o = o, !.early = ~A.built]

\* assert self._built, "you need to build the automata before searching"
searchAssert(A) ==
    IF A.built THEN "no" ELSE "you need to build the automata before searching"

\* next(generator): the body starts, with its assert, or goes on after its yield
resume(A, S) ==
    IF S.status = "created" /\ searchAssert(A) # "no"
    THEN [S |-> [S EXCEPT !.status = "failed"], raised |-> searchAssert(A)]
    ELSE [S |-> [S EXCEPT !.status = "running"], raised |-> "no"]

Search(g, o) ==
    /\ Idle
    /\ gen[g].status = "none"
    /\ gen' = [gen EXCEPT ![g] = search(o, ac[o])]
    /\ ret' = Returned("search", o, "no")
    /\ UNCHANGED <<ac, call, hist>>

Resume(g) ==
    /\ Idle
    /\ gen[g].status \in {"created", "suspended"}
    /\ LET R == resume(ac[gen[g].o], gen[g])
       IN  /\ gen' = [gen EXCEPT ![g] = R.S]
           /\ ret' = IF R.raised = "no" THEN ret ELSE Returned("next", gen[g].o, R.raised)
    /\ UNCHANGED <<ac, call, hist>>

\* the outer for loop takes the next symbol c of the text
Consume(g, c) ==
    /\ gen[g].status = "running"
    /\ gen[g].out = <<>>
    /\ Len(gen[g].consumed) < MaxText
    /\ LET R == consume(ac[gen[g].o], gen[g], c)
       IN  /\ gen' = [gen EXCEPT ![g] = R.S]
           /\ ac' = [ac EXCEPT ![gen[g].o] = R.A]
    /\ UNCHANGED <<call, ret, hist>>

\* the inner for loop yields its next match
Yield(g) ==
    /\ gen[g].status = "running"
    /\ gen[g].out # <<>>
    /\ gen' = [gen EXCEPT ![g] = yield(gen[g])]
    /\ ret' = Returned("next", gen[g].o, "no")
    /\ UNCHANGED <<ac, call, hist>>

\* the text has no further symbol: the generator returns
Exhaust(g) ==
    /\ gen[g].status = "running"
    /\ gen[g].out = <<>>
    /\ gen' = [gen EXCEPT ![g].status = "done"]
    /\ ret' = Returned("next", gen[g].o, "StopIteration")
    /\ UNCHANGED <<ac, call, hist>>

----------------------------------------------------------------------------
(* The matches of a search that is pulled to its end *)

\* the consumer pulls until the inner for loop has yielded every match of the position
RECURSIVE drain(_)
drain(S) ==
    IF S.out = <<>> THEN [S EXCEPT !.status = "running"] ELSE drain(yield(S))

----------------------------------------------------------------------------
InitObjects(Objs) ==
    /\ ac = [o \in Objs |-> New]
    /\ call = NoCall
    /\ gen = [g \in GenIds |-> NoGen]
    /\ ret = Returned("init", 0, "no")
    /\ hist = [added |-> [o \in Objs |-> {}], frozen |-> <<>>,
               trie |-> <<>>, links |-> <<>>]

Init == InitObjects({1})

Next ==
    \/ \E w \in Words : Add(1, w)
    \/ \E d \in BOOLEAN : BuildStart(1, d)
    \/ BuildLoop
    \/ BuildEnd
    \/ Search(1, 1)
    \/ Resume(1)
    \/ \E c \in Sym : Consume(1, c)
    \/ Yield(1)
    \/ Exhaust(1)

Spec == Init /\ [][Next]_vars

\* the symbols the generators of S have taken together
RECURSIVE totalConsumed(_)
totalConsumed(S) ==
    IF S = {} THEN 0
    ELSE LET g == CHOOSE g \in S : TRUE
         IN  Len(gen[g].consumed) + totalConsumed(S \ {g})


\* Two searches of one built automaton, their pulls interleaved.
NextConc ==
    \/ \E w \in Words : ~ac[1].built /\ Add(1, w)
    \/ \E d \in BOOLEAN : ~ac[1].built /\ BuildStart(1, d)
    \/ BuildLoop
    \/ BuildEnd
    \/ ac[1].built /\ Search(1, 1)
    \/ gen[1].status # "none" /\ Search(2, 1)
    \/ \E g \in GenIds : Resume(g)
    \/ \E g \in GenIds, c \in Sym : totalConsumed(GenIds) < MaxText /\ Consume(g, c)
    \/ \E g \in GenIds : Yield(g)
    \/ \E g \in GenIds : Exhaust(g)

SpecConc == Init /\ [][NextConc]_vars

\* Generators 1 and 2 are given the same text: symbol c is the next one of the text
\* of g only if the other generator, where it has come that far, took c there too,
\* and the text of g ends only where the other generator has taken no further symbol.
SameText(g, c) ==
    \A h \in GenIds \ {g} :
        Len(gen[g].consumed) < Len(gen[h].consumed) =>
            gen[h].consumed[Len(gen[g].consumed) + 1] = c
SameEnd(g) ==
    \A h \in GenIds \ {g} : Len(gen[h].consumed) <= Len(gen[g].consumed)

\* the search of object 1 and, once it has ended, the search of object 2 over the same
\* text, generator g searching object g
PairSearch ==
    \/ ac[1].built /\ ac[2].built /\ Search(1, 1)
    \/ gen[1].status = "done" /\ Search(2, 2)
    \/ \E g \in GenIds : Resume(g)
    \/ \E g \in GenIds, c \in Sym : SameText(g, c) /\ Consume(g, c)
    \/ \E g \in GenIds : Yield(g)
    \/ \E g \in GenIds : SameEnd(g) /\ Exhaust(g)

\* Two automata given the same add calls in the same order (object 2 is given each
\* word after object 1), object 1 built with deterministic=False and object 2 with
\* deterministic=True, searching the same text.
NextModes ==
    \/ \E w \in Words : ac[1] = ac[2] /\ Add(1, w)
    \/ \E w \in Words : ac[1] # ac[2] /\ add(ac[2], w).A = ac[1] /\ Add(2, w)
    \/ BuildStart(1, FALSE)
    \/ BuildStart(2, TRUE)
    \/ BuildLoop
    \/ BuildEnd
    \/ PairSearch

SpecModes == InitObjects({1, 2}) /\ [][NextModes]_vars

\* Two automata given the same words, object 2 in any order and with repetitions,
\* built in the same mode, searching the same text.
NextOrder ==
    \/ \E w \in Words : ~ac[1].built /\ Add(1, w)
    \/ \E d \in BOOLEAN : ~ac[1].built /\ BuildStart(1, d)
    \/ BuildLoop
    \/ BuildEnd
    \/ \E w \in hist.added[1] : ac[1].built /\ ~ac[2].built /\ Add(2, w)
    \/ /\ ac[1].built /\ ~ac[2].built
       /\ hist.added[2] = hist.added[1]
       /\ BuildStart(2, ac[1].deter)
    \/ PairSearch

SpecOrder == InitObjects({1, 2}) /\ [][NextOrder]_vars

\* Insertion and build alone: the calls of add and build on one automaton, the failing
\* ones included, build taken one pass of its loop at a time.
NextBuild ==
    \/ \E w \in Words : AddWithin(1, w, MaxTrie)
    \/ \E d \in BOOLEAN : BuildStart(1, d)
    \/ BuildLoop
    \/ BuildEnd

SpecBuild == Init /\ [][NextBuild]_vars

\* The calls that succeed, on one automaton and one search of it.
NextCalls ==
    \/ \E w \in Words \ {<<>>} : ~ac[1].built /\ Add(1, w)
    \/ \E d \in BOOLEAN : ~ac[1].built /\ BuildStart(1, d)
    \/ BuildLoop
    \/ BuildEnd
    \/ ac[1].built /\ Search(1, 1)
    \/ Resume(1)
    \/ \E c \in Sym : Consume(1, c)
    \/ Yield(1)
    \/ Exhaust(1)

SpecCalls == Init /\ [][NextCalls]_vars

----------------------------------------------------------------------------
(* The claims *)

Range(s) == {s[i] : i \in DOMAIN s}
Last(s) == s[Len(s)]
\* the position just after the last symbol of match m
End(m) == m[2] + Len(m[1])
\* the body of generator g has started
Started(g) == gen[g].status \in {"running", "suspended", "done"}

\* {(w, k) : w in P, 0 <= k, T[k : k + len(w)] = w}
Occurrences(P, T) ==
    {m \in P \X (0..Len(T)) :
        /\ m[2] + Len(m[1]) <= Len(T)
        /\ SubSeq(T, m[2] + 1, m[2] + Len(m[1])) = m[1]}

\* the states of automaton A: the root and the identifiers allocated so far
States(A) == 0..(A.next - 1)
\* the objects build has returned from
Built == DOMAIN hist.frozen
\* the trie of object o: the transition table as build found it
Trie(o) == hist.trie[o].G

\* the word spelled by the trie edges from the root to state s
RECURSIVE path(_, _)
path(T, s) ==
    IF s = 0 THEN <<>>
    ELSE LET k == CHOOSE k \in DOMAIN T : T[k] = s
         IN  Append(path(T, k[1]), k[2])
depth(T, s) == Len(path(T, s))

\* the state that word p leads to from state s along trie edges, -1 when it leaves the trie
RECURSIVE walk(_, _, _)
walk(T, s, p) ==
    IF p = <<>> THEN s
    ELSE IF Has(T, <<s, Head(p)>>) THEN walk(T, T[<<s, Head(p)>>], Tail(p))
    ELSE -1

\* the suffixes of word p from its i-th symbol on, the empty one included
SuffixesFrom(p, i) == {SubSeq(p, k, Len(p)) : k \in i..Len(p) + 1}
\* the state spelling the longest word of Q that is a path of the trie (the empty word
\* is one, spelling the root)
longest(T, Q) ==
    LET paths == {q \in Q : walk(T, 0, q) # -1}
    IN  walk(T, 0, CHOOSE q \in paths : \A x \in paths : Len(x) <= Len(q))
\* the state an Aho-Corasick automaton is in after symbol a in state s: the longest
\* suffix of the path of s followed by a that is a path of the trie
goto(T, s, a) == longest(T, SuffixesFrom(Append(path(T, s), a), 1))
\* the state whose path is the longest proper suffix of the path of s that is a path
longestProperSuffix(T, s) == longest(T, SuffixesFrom(path(T, s), 2))

\* the states on the failure chain of s: its failure state, the failure state of that
\* one, and so on to the root
RECURSIVE chain(_, _)
chain(F, s) == IF s = 0 THEN {} ELSE {F[s]} \cup chain(F, F[s])
\* word w ends word p
IsSuffix(w, p) == Len(w) <= Len(p) /\ SubSeq(p, Len(p) - Len(w) + 1, Len(p)) = w

Max(x, y) == IF x >= y THEN x ELSE y

\* the number of failure links followed from state s to the root
RECURSIVE hops(_, _)
hops(F, s) == IF s = 0 THEN 0 ELSE 1 + hops(F, F[s])
\* the failure table of object o that build has computed so far
Links(o) == IF o \in Built THEN hist.links[o] ELSE ac[o].F

AlreadyBuiltAdd == "adding new words after building is not allowed"
EmptyWord == "unable to add empty words"
AlreadyBuilt == "already built"

\* C1: at every point of a search, the matches yielded so far together with those the
\* current position still has to yield are exactly the occurrences of the added words
\* in the text consumed so far; so a finished search has yielded exactly the
\* occurrences in its text, overlapping ones and suffixes of longer matches included.
C1_SearchYieldsOccurrences ==
    \A g \in GenIds :
        Started(g) =>
            Range(gen[g].yielded) \cup Range(gen[g].out)
                = Occurrences(hist.added[gen[g].o], gen[g].consumed)

\* a finished search that reported two different words ending at the same position
C1_Witness ==
    \E g \in GenIds :
        /\ gen[g].status = "done"
        /\ \E i, j \in DOMAIN gen[g].yielded :
              /\ i # j
              /\ End(gen[g].yielded[i]) = End(gen[g].yielded[j])

\* the state a search of object A is in after the symbols of text
RECURSIVE stateAfter(_, _, _)
stateAfter(A, text, n) ==
    IF n = 0 THEN 0 ELSE transition(A, stateAfter(A, text, n - 1), text[n])

\* word p starts word q
IsPrefix(p, q) == Len(p) <= Len(q) /\ SubSeq(q, 1, Len(p)) = p
\* the matches of ms that end at position n or before
UpTo(ms, n) == {m \in Range(ms) : End(m) <= n}

\* C2: on the same words and the same text, the search of the automaton built with
\* deterministic=False and the search of the one built with deterministic=True are in
\* the same state after each symbol, and after each symbol the matches the one has
\* yielded or is about to yield are those the other yields up to that symbol.
C2_ModesAgree ==
    (/\ Started(1) /\ Started(2)
     /\ isDeter(ac[2]) /\ ~isDeter(ac[1])
     /\ hist.added[1] = hist.added[2]
     /\ IsPrefix(gen[2].consumed, gen[1].consumed))
    => LET n == Len(gen[2].consumed)
       IN  /\ gen[2].state = stateAfter(ac[1], gen[1].consumed, n)
           /\ n = Len(gen[1].consumed) => gen[2].state = gen[1].state
           /\ Range(gen[2].yielded) \cup Range(gen[2].out)
                 = UpTo(gen[1].yielded \o gen[1].out, n)
           /\ gen[2].status = "done" /\ n = Len(gen[1].consumed)
                 => Range(gen[2].yielded) = Range(gen[1].yielded)

\* both searches have just yielded a match, the deterministic one having taken its last
\* symbol through a transition that the closure added and the other automaton lacks
C2_Witness ==
    /\ Started(1) /\ Started(2)
    /\ gen[1].consumed = gen[2].consumed
    /\ gen[1].yielded # <<>>
    /\ Len(gen[2].consumed) = MaxText
    /\ gen[2].state # 0
    /\ LET key == <<stateAfter(ac[2], gen[2].consumed, MaxText - 1),
                    Last(gen[2].consumed)>>
       IN  ~Has(ac[1].G, key) /\ Has(ac[2].G, key)
    /\ gen[2].yielded # <<>>
    /\ End(Last(gen[2].yielded)) = MaxText

\* C3: a search invoked before build has completed never yields a match.
C3_EarlySearchYieldsNothing ==
    \A g \in GenIds : gen[g].early => gen[g].yielded = <<>>

\* C4: on a built automaton add(word) raises the already-built error, whatever the
\* word, and returns the object (tables, counter, flags) as it was; and every step that
\* returns from a call of add on a built automaton has raised that error and changed
\* neither the object nor the words it holds.
C4_AddAfterBuildFails ==
    /\ [](ac[1].built =>
             \A w \in Words :
                 add(ac[1], w) = [A |-> ac[1], raised |-> AlreadyBuiltAdd])
    /\ [][(ac[1].built /\ ret'.op = "add" /\ ret' # ret) =>
             /\ ret'.raised = AlreadyBuiltAdd
             /\ ac' = ac
             /\ hist' = hist]_vars

\* add has raised the already-built error while a search was under way
C4_Witness ==
    /\ ret.op = "add"
    /\ ret.raised = AlreadyBuiltAdd
    /\ ac[1].built
    /\ gen[1].status = "suspended"

\* C5: add of the empty word before build raises the empty-word error and changes no
\* table: no state, transition, alphabet entry or output appears.
C5_AddEmptyFails ==
    [][(~ac[1].built /\ ret'.op = "add" /\ Add(1, <<>>)) =>
          /\ ret'.raised = EmptyWord
          /\ ac' = ac
          /\ hist' = hist]_vars

\* add has raised the empty-word error on an automaton that holds words
C5_Witness ==
    /\ ret.op = "add"
    /\ ret.raised = EmptyWord
    /\ ac[1].next > 1
    /\ ~Has(ac[1].O, 0)

\* C6: build on a built automaton raises the already-built error, with either
\* argument, and leaves the object and the generators as they were.
C6_SecondBuildFails ==
    [][\A d \in BOOLEAN :
          (ac[1].built /\ BuildStart(1, d)) =>
              /\ ret'.raised = AlreadyBuilt
              /\ ac' = ac
              /\ call' = call
              /\ gen' = gen]_vars

\* build has raised the already-built error on a deterministic automaton, a search of
\* it being under way
C6_Witness ==
    /\ ret.op = "build"
    /\ ret.raised = AlreadyBuilt
    /\ isDeter(ac[1])
    /\ gen[1].status = "suspended"

\* C7: from the moment build returns, the object stays equal to what build left.
C7_ImmutableAfterBuild ==
    \A o \in DOMAIN hist.frozen : ac[o] = hist.frozen[o]

\* a failing add after a partly consumed search that has yielded matches
C7_Witness ==
    /\ Has(hist.frozen, 1)
    /\ gen[1].status = "suspended"
    /\ Len(gen[1].consumed) >= 2
    /\ ret.raised = AlreadyBuiltAdd

\* the matches a search of text yields when it runs alone and to its end
RECURSIVE alone(_, _, _, _)
alone(A, S, text, i) ==
    IF i > Len(text) THEN S.yielded
    ELSE alone(A, drain(consume(A, S, text[i]).S), text, i + 1)

\* C8: whatever the interleaving of the pulls, each search has yielded, with what its
\* position still has to yield, the matches a search of the same text running alone
\* yields; and two finished searches of the same text have yielded the same sequence.
C8_SearchesIndependent ==
    /\ \A g \in GenIds :
          Started(g) =>
              gen[g].yielded \o gen[g].out
                  = alone(ac[gen[g].o], search(gen[g].o, ac[gen[g].o]), gen[g].consumed, 1)
    /\ \A g, h \in GenIds :
          (gen[g].status = "done" /\ gen[h].status = "done"
               /\ gen[g].consumed = gen[h].consumed)
          => gen[g].yielded = gen[h].yielded

\* two searches under way at once, each suspended after a match
C8_Witness ==
    /\ gen[1].status = "suspended"
    /\ gen[2].status = "suspended"
    /\ Len(gen[1].consumed) # Len(gen[2].consumed)

\* C9: on the same set of words, added in different orders and with repetitions, and
\* the same mode, the matches one search of a text has yielded or is about to yield
\* after each symbol are those the other yields up to that symbol, and the two
\* finished searches have yielded the same set of matches.
C9_OrderIrrelevant ==
    (/\ Started(1) /\ Started(2)
     /\ hist.added[1] = hist.added[2]
     /\ isDeter(ac[1]) = isDeter(ac[2])
     /\ IsPrefix(gen[2].consumed, gen[1].consumed))
    => /\ Range(gen[2].yielded) \cup Range(gen[2].out)
             = UpTo(gen[1].yielded \o gen[1].out, Len(gen[2].consumed))
       /\ gen[2].status = "done" /\ gen[2].consumed = gen[1].consumed
             => Range(gen[2].yielded) = Range(gen[1].yielded)

\* the two automata number their states differently, a word ending on different
\* states, and their searches of the same symbols have each yielded two matches
C9_Witness ==
    /\ Started(1) /\ Started(2)
    /\ ac[1].G # ac[2].G
    /\ ac[1].O # ac[2].O
    /\ gen[1].consumed = gen[2].consumed
    /\ Len(gen[1].yielded) >= 2
    /\ Len(gen[2].yielded) >= 2

\* C10 as stated: the search is never more than one symbol past the end of the match
\* it yielded last.
C10_AtMostOneSymbolAhead ==
    \A g \in GenIds :
        gen[g].yielded # <<>> =>
            Len(gen[g].consumed) <= End(Last(gen[g].yielded)) + 1

\* C10 amended: a symbol is taken from the text only by a running generator (one a
\* consumer is pulling from), one symbol at a time, and only once every occurrence in
\* the text taken so far has been yielded; and when a match is yielded, the text taken
\* so far ends with that match.
C10_Interleaved ==
    [][\A g \in GenIds :
          /\ gen'[g].consumed # gen[g].consumed =>
                /\ gen[g].status = "running"
                /\ Len(gen'[g].consumed) = Len(gen[g].consumed) + 1
                /\ Occurrences(hist.added[gen[g].o], gen[g].consumed)
                       \subseteq Range(gen[g].yielded)
          /\ gen'[g].yielded # gen[g].yielded =>
                /\ gen'[g].consumed = gen[g].consumed
                /\ gen'[g].status = "suspended"
                /\ End(Last(gen'[g].yielded)) = Len(gen'[g].consumed)]_vars

\* a suspended search that has yielded matches ending at two different positions
C10_Witness ==
    /\ gen[1].status = "suspended"
    /\ Len(gen[1].yielded) >= 2
    /\ End(gen[1].yielded[1]) < End(Last(gen[1].yielded))

\* the symbols that occur in the words added to object o
Seen(o) == UNION {Range(w) : w \in hist.added[o]}
\* the matches of ms that end after position j
After(ms, j) == SelectSeq(ms, LAMBDA m : End(m) > j)
\* the matches of ms with their indices moved right by j
Shift(ms, j) == [k \in DOMAIN ms |-> <<ms[k][1], ms[k][2] + j>>]

\* C11: when the j-th symbol of the text of a search occurs in no added word, the
\* search is in state 0 after it and no match ends at position j; from there on the
\* search is in the state, and has yielded or is about to yield the matches, of a fresh
\* search of the text after position j, the indices moved by j.
C11_UnseenSymbolResets ==
    \A g \in GenIds :
        Started(g) =>
            \A j \in 1..Len(gen[g].consumed) :
                gen[g].consumed[j] \notin Seen(gen[g].o) =>
                    LET A == ac[gen[g].o]
                        text == gen[g].consumed
                        rest == SubSeq(text, j + 1, Len(text))
                        all == gen[g].yielded \o gen[g].out
                    IN  /\ stateAfter(A, text, j) = 0
                        /\ \A k \in DOMAIN all : End(all[k]) # j
                        /\ gen[g].state = stateAfter(A, rest, Len(rest))
                        /\ After(all, j)
                               = Shift(alone(A, search(gen[g].o, A), rest, 1), j)

\* a search that yielded a match, then took a symbol of no added word from a state
\* other than the root, then yielded a match again
C11_Witness ==
    \E j \in 2..Len(gen[1].consumed) :
        /\ gen[1].consumed[j] \notin Seen(1)
        /\ stateAfter(ac[1], gen[1].consumed, j - 1) # 0
        /\ \E k \in DOMAIN gen[1].yielded : End(gen[1].yielded[k]) < j
        /\ \E k \in DOMAIN gen[1].yielded : End(gen[1].yielded[k]) > j

\* C12 as stated: after build(deterministic=True), the transition table has an entry
\* for every state and every symbol that occurs in an added word.
C12_EverySeenSymbolHasEntry ==
    \A o \in Built :
        isDeter(ac[o]) =>
            \A s \in States(ac[o]), a \in Seen(o) : Has(ac[o].G, <<s, a>>)

\* C12 amended: after build(deterministic=True), the transition table has an entry for
\* state s and symbol a exactly when the state the automaton goes to from s on a (the
\* longest suffix of the path of s followed by a that is a trie path) is not the root,
\* and the entry is that state; so a lookup is absent only where the root, the default
\* of the lookup, is the destination, as it is for every symbol of no added word.
C12_ClosedTable ==
    \A o \in Built :
        isDeter(ac[o]) =>
            /\ \A s \in States(ac[o]), a \in Sym :
                  /\ Has(ac[o].G, <<s, a>>) <=> goto(Trie(o), s, a) # 0
                  /\ Get(ac[o].G, <<s, a>>, 0) = goto(Trie(o), s, a)
            /\ \A k \in DOMAIN ac[o].G : k[1] \in States(ac[o]) /\ k[2] \in Seen(o)

\* a deterministic automaton whose closure took a transition from a state two failure
\* links away and left a state without entry for a symbol of an added word
C12_Witness ==
    /\ 1 \in Built /\ isDeter(ac[1])
    /\ \E s \in States(ac[1]), a \in Seen(1) : ~Has(ac[1].G, <<s, a>>)
    /\ \E s \in States(ac[1]), a \in Sym :
          LET f == hist.links[1][s]
          IN  /\ s # 0 /\ f # 0
              /\ ~Has(Trie(1), <<s, a>>) /\ ~Has(Trie(1), <<f, a>>)
              /\ Has(ac[1].G, <<s, a>>)

\* C13: after build, in either mode, the output set of every state s but the root is
\* the set of the words whose add call ended on s united with the sets that add left
\* on the states of the failure chain of s, add having left on a state the added words
\* it spells; and it is the set of the added words that are suffixes of the path of s.
C13_OutputsAreSuffixes ==
    \A o \in Built :
        \A s \in States(ac[o]) \ {0} :
            LET pre == hist.trie[o].O
                out == Get(ac[o].O, s, {})
            IN  /\ Get(pre, s, {}) = {w \in hist.added[o] : walk(Trie(o), 0, w) = s}
                /\ out = Get(pre, s, {})
                           \cup UNION {Get(pre, f, {}) : f \in chain(hist.links[o], s)}
                /\ out = {w \in hist.added[o] : IsSuffix(w, path(Trie(o), s))}

\* a built automaton with a state that ends a word of its own and has the output of a
\* state two failure links away, its failure state ending no word
C13_Witness ==
    /\ 1 \in Built
    /\ \E s \in States(ac[1]) \ {0} :
          LET f == hist.links[1][s]
          IN  /\ f # 0
              /\ Has(hist.trie[1].O, s)
              /\ ~Has(hist.trie[1].O, f)
              /\ ac[1].O[s] # hist.trie[1].O[s]

\* C14: every failure link that build has computed, in either mode, leads to the state
\* whose path is the longest proper suffix of the path of its source that is a trie
\* path, the root when only the empty suffix is one; and when build returns every
\* state but the root has its link.
C14_FailureIsLongestSuffix ==
    /\ \A o \in DOMAIN hist.trie :
          \A s \in DOMAIN ac[o].F : ac[o].F[s] = longestProperSuffix(Trie(o), s)
    /\ \A o \in Built :
          /\ DOMAIN hist.links[o] = States(ac[o]) \ {0}
          /\ \A s \in DOMAIN hist.links[o] :
                hist.links[o][s] = longestProperSuffix(Trie(o), s)

\* a deterministic build that computed the failure link of state s, the child of r on
\* symbol a, through a transition on a that the closure had added to the failure state
\* of r
C14_Witness ==
    /\ 1 \in Built /\ isDeter(ac[1])
    /\ \E k \in DOMAIN Trie(1) :
          LET f == hist.links[1][Trie(1)[k]]
              fr == Get(hist.links[1], k[1], 0)
          IN  /\ fr # 0
              /\ ~Has(Trie(1), <<fr, k[2]>>)
              /\ Has(ac[1].G, <<fr, k[2]>>)
              /\ f = ac[1].G[<<fr, k[2]>>]

\* the states build appends to its queue in the step taken
Enqueued == Range(call'.enq) \ (IF call.active THEN Range(call.enq) ELSE {})

\* C15: during build no state is appended to the queue twice, the queue holds the
\* appended states not yet popped, the states are popped in non-decreasing depth and,
\* when the queue is empty, every state but the root has been appended; a step of
\* build gives a failure link to the states it appends and to no other, changes the
\* link of no state that has one, changes the output set of the appended states only,
\* and the failure link it gives leads to the root or to a state appended in an
\* earlier step, whose own link and output set are therefore never changed again.
C15_BuildOrder ==
    /\ [](call.active =>
            LET A == ac[call.o]
                T == Trie(call.o)
            IN  /\ \A i, j \in DOMAIN call.enq : i # j => call.enq[i] # call.enq[j]
                /\ call.enq = call.deq \o call.queue
                /\ DOMAIN A.F = Range(call.enq)
                /\ \A i, j \in DOMAIN call.deq :
                      i < j => depth(T, call.deq[i]) <= depth(T, call.deq[j])
                /\ call.queue = <<>> => Range(call.enq) = States(A) \ {0})
    /\ [][call'.active =>
            LET A == ac[call'.o]
                A1 == ac'[call'.o]
            IN  /\ DOMAIN A1.F = DOMAIN A.F \cup Enqueued
                /\ DOMAIN A.F \cap Enqueued = {}
                /\ \A t \in DOMAIN A.F : A1.F[t] = A.F[t]
                /\ \A t \in States(A) \ Enqueued : Get(A1.O, t, {}) = Get(A.O, t, {})
                /\ \A t \in Enqueued : A1.F[t] \in DOMAIN A.F \cup {0}]_vars

\* a build whose loop has ended after popping states of three depths, one of which
\* received its whole output set from its failure state
C15_Witness ==
    /\ call.active /\ call.queue = <<>>
    /\ \E i, j, k \in DOMAIN call.deq :
          /\ depth(Trie(call.o), call.deq[i]) < depth(Trie(call.o), call.deq[j])
          /\ depth(Trie(call.o), call.deq[j]) < depth(Trie(call.o), call.deq[k])
    /\ \E t \in DOMAIN ac[call.o].F :
          /\ ac[call.o].F[t] # 0
          /\ ~Has(hist.trie[call.o].O, t)
          /\ Has(ac[call.o].O, t)

\* C16: before build, after any add calls, the values of the transition table are
\* exactly 1..n, each the destination of one entry, whose source is a state created
\* before it; state 0 is the destination of none; the recorded alphabet of every state
\* is the set of the symbols it has a transition for; and a further add of any word
\* keeps the entries there are, gives the new ones the next identifiers in the order
\* of the word's symbols, at most one per symbol, and none when the word is already a
\* path of the trie.
C16_TrieIsTree ==
    (~ac[1].built /\ ~call.active) =>
        LET A == ac[1]
            n == A.next - 1
        IN  /\ {A.G[k] : k \in DOMAIN A.G} = 1..n
            /\ \A s \in 1..n : Cardinality({k \in DOMAIN A.G : A.G[k] = s}) = 1
            /\ \A k \in DOMAIN A.G : k[1] \in 0..n /\ k[1] < A.G[k]
            /\ DOMAIN A.W \subseteq 0..n
            /\ \A s \in 0..n : Get(A.W, s, {}) = {a \in Sym : Has(A.G, <<s, a>>)}
            /\ \A w \in Words :
                  LET R == add(A, w).A
                      new == DOMAIN R.G \ DOMAIN A.G
                      at == [i \in 0..Len(w) |-> walk(R.G, 0, SubSeq(w, 1, i))]
                  IN  /\ \A k \in DOMAIN A.G : R.G[k] = A.G[k]
                      /\ {R.G[k] : k \in new} = A.next..(R.next - 1)
                      /\ Cardinality(new) = R.next - A.next
                      /\ Cardinality(new) <= Len(w)
                      /\ walk(A.G, 0, w) # -1 => new = {}
                      /\ \A i \in 1..Len(w) :
                            at[i] >= A.next => at[i] = Max(at[i - 1] + 1, A.next)

\* a trie of MaxTrie states, one of them with two children, that holds a word and a
\* longer word starting with it
C16_Witness ==
    /\ ~ac[1].built /\ ~call.active
    /\ ac[1].next - 1 = MaxTrie
    /\ \E s \in States(ac[1]) : Cardinality(Get(ac[1].W, s, {})) = 2
    /\ \E v, w \in hist.added[1] : Len(v) < Len(w) /\ SubSeq(w, 1, Len(v)) = v

\* C17: in every reachable state, whatever calls of add, build and search were made and
\* however far a build has got, the failure table has no key 0 and the output table
\* has no key 0, so that state 0 carries no output.
C17_RootHasNoLinkNoOutput ==
    \A o \in DOMAIN ac :
        /\ ~Has(ac[o].F, 0)
        /\ ~Has(ac[o].O, 0)
        /\ Get(ac[o].O, 0, {}) = {}
        /\ o \in DOMAIN hist.links => ~Has(hist.links[o], 0)

\* a search of a built automaton back at the root after yielding a match, the build
\* having given a state with an output the root as failure state
C17_Witness ==
    /\ 1 \in Built
    /\ \E s \in DOMAIN hist.links[1] : s # 0 /\ hist.links[1][s] = 0 /\ Has(ac[1].O, s)
    /\ gen[1].status = "running"
    /\ gen[1].yielded # <<>>
    /\ gen[1].state = 0

\* C18: from the moment build is called, during the call and after it, every entry of
\* the transition table that add had made is there with its destination; with
\* deterministic=False the table is the one build found, and with deterministic=True
\* the entries it has beyond those lead from a state other than the root.
C18_BuildKeepsTrie ==
    \A o \in DOMAIN hist.trie :
        LET T == Trie(o)
            G == ac[o].G
            deterministic == IF call.active /\ call.o = o THEN call.deterministic
                             ELSE isDeter(ac[o])
        IN  /\ \A k \in DOMAIN T : Has(G, k) /\ G[k] = T[k]
            /\ ~deterministic => G = T
            /\ \A k \in DOMAIN G \ DOMAIN T : k[1] # 0

\* a deterministic build that has returned after adding entries to more than one state
\* of a trie whose root has two children
C18_Witness ==
    /\ 1 \in Built /\ isDeter(ac[1])
    /\ Cardinality({k[1] : k \in DOMAIN ac[1].G \ DOMAIN Trie(1)}) >= 2
    /\ Cardinality({k \in DOMAIN Trie(1) : k[1] = 0}) = 2

\* C19: every failure link leads to a state of smaller depth than its source, so the
\* root is at most depth-many links away from any state. A build in progress has
\* popped and still holds in its queue no more states than there are, pops one state
\* in every pass of its loop and returns only with its queue empty, so it returns
\* after at most as many passes as there are states. A step of a running search
\* yields a match, ends the search or takes exactly one more symbol of the text, so
\* the search reaches the end of a text of n symbols after taking each of them once.
C19_Terminates ==
    /\ [](\A o \in DOMAIN hist.trie :
            /\ \A s \in DOMAIN Links(o) :
                  depth(Trie(o), Links(o)[s]) < depth(Trie(o), s)
            /\ \A s \in DOMAIN Links(o) : hops(Links(o), s) <= depth(Trie(o), s))
    /\ [](call.active => Len(call.deq) + Len(call.queue) <= ac[call.o].next - 1)
    /\ [][call.active /\ call' # call =>
              \/ /\ call'.active
                 /\ call.queue # <<>>
                 /\ call'.deq = Append(call.deq, Head(call.queue))
              \/ /\ ~call'.active
                 /\ call.queue = <<>>
                 /\ ac'[call.o].built]_vars
    /\ [][gen[1].status = "running" /\ gen'[1] # gen[1] =>
              \/ /\ gen'[1].status = "suspended"
                 /\ gen'[1].consumed = gen[1].consumed
                 /\ Len(gen'[1].yielded) = Len(gen[1].yielded) + 1
              \/ /\ gen'[1].status = "done"
                 /\ gen'[1].consumed = gen[1].consumed
              \/ /\ gen'[1].status = "running"
                 /\ \E c \in Sym : gen'[1].consumed = Append(gen[1].consumed, c)]_vars

\* a finished search of MaxText symbols, on an automaton built without the closure,
\* that has a state as many failure links away from the root as it is deep
C19_Witness ==
    /\ 1 \in Built /\ ~isDeter(ac[1])
    /\ \E s \in DOMAIN ac[1].F : hops(ac[1].F, s) >= 2 /\ hops(ac[1].F, s) = depth(Trie(1), s)
    /\ gen[1].status = "done"
    /\ Len(gen[1].consumed) = MaxText
    /\ gen[1].yielded # <<>>

\* C20: the matches a search has yielded, followed by those its position has still to
\* yield, are in the order of their end positions; a match about to be yielded, or
\* just yielded, ends at the number of symbols taken so far; every index is at least
\* 0; and no match occurs twice.
C20_YieldOrder ==
    \A g \in GenIds :
        Started(g) =>
            LET all == gen[g].yielded \o gen[g].out
            IN  /\ \A i, j \in DOMAIN all : i < j => End(all[i]) <= End(all[j])
                /\ \A k \in DOMAIN gen[g].out :
                      End(gen[g].out[k]) = Len(gen[g].consumed)
                /\ gen[g].status = "suspended" =>
                      End(Last(gen[g].yielded)) = Len(gen[g].consumed)
                /\ \A k \in DOMAIN all : all[k][2] >= 0
                /\ \A i, j \in DOMAIN all : i # j => all[i] # all[j]

\* a search that has yielded a match at index 0 and then two matches ending together
\* at a later position, one of them the whole text taken so far
C20_Witness ==
    /\ gen[1].status = "suspended"
    /\ \E i, j, k \in DOMAIN gen[1].yielded :
          /\ i < j /\ j < k
          /\ gen[1].yielded[i][2] = 0
          /\ End(gen[1].yielded[i]) < End(gen[1].yielded[j])
          /\ End(gen[1].yielded[j]) = End(gen[1].yielded[k])
          /\ 0 \in {gen[1].yielded[j][2], gen[1].yielded[k][2]}
====
